---------------------------- MODULE Spec2Model ----------------------------
(***************************************************************************)
(* A model of src/main.py: the gitignore rule engine (GitignoreParser),    *)
(* the file collector and selection state (RepoDocumentationGenerator),    *)
(* the preview window (FilePreviewWindow) and the controller               *)
(* (DocumentationGeneratorGUI, main).                                      *)
(*                                                                         *)
(* Python strings are TLA+ strings; TLC evaluates Len, Head, Tail, SubSeq  *)
(* and \o on them, so a character is a string of length one.               *)
(*                                                                         *)
(* Five specifications share the variables:                                *)
(*   SpecRules    one GitignoreParser object: construction, then queries   *)
(*   SpecCollect  one collection pass over a directory tree                *)
(*   Spec         the program: command-line mode and the GUI event loop    *)
(*                with its worker threads                                  *)
(*   SpecPreview  the GUI from an opened preview window on                 *)
(*   SpecLive     the GUI under fair scheduling of workers and callbacks   *)
(***************************************************************************)
EXTENDS Integers, Sequences, FiniteSets, TLC

VARIABLES
    \* ---- GitignoreParser object (SpecRules)
    rpc,                \* "off" | "parsing" | "ready"
    patterns,           \* self.patterns
    negation_patterns,  \* self.negation_patterns
    lines_read,         \* number of lines of the source consumed so far
    call,               \* the last method call made on the parser, or NoCall
    ret                 \* what that call returned

VARIABLES
    \* ---- the file system and the objects of one run of the program
    disk,               \* root name -> what is on disk there
    generators,         \* the RepoDocumentationGenerator objects, in creation order
    lists,              \* the list objects that file_list attributes refer to
    written,            \* the output file written last: << >>, or <<what it holds>>
    \* ---- main(), command-line mode
    cli_pc,             \* "off" | "start" | "constructed" | "collected" | "saved" | "exit"
    cli_dir,            \* args.directory
    exit_status         \* what main() returned, -1 while it runs

VARIABLES
    \* ---- DocumentationGeneratorGUI and its windows and threads
    gui_on,             \* the GUI runs (app.run())
    selected_directory, \* self.selected_directory, "" before any choice
    preview_button,     \* state of self.preview_button: "normal" | "disabled"
    generate_button,    \* state of self.generate_button
    gui_generator,      \* self.generator: an index of generators, 0 for None
    gui_excluded_files, \* self.excluded_files
    progress_running,   \* self.progress between start() and stop()
    threads,            \* the worker threads started, in start order
    events,             \* callbacks queued by root.after(0, ...), oldest first
    windows,            \* the FilePreviewWindow objects, in creation order
    grab                \* the preview window holding the input grab, 0 for none

rulesVars == <<rpc, patterns, negation_patterns, lines_read, call, ret>>

progVars == <<disk, generators, lists, written>>

cliVars == <<cli_pc, cli_dir, exit_status>>

guiVars_but_threads ==
    <<gui_on, selected_directory, preview_button, generate_button,
      gui_generator, gui_excluded_files, progress_running, events, windows, grab>>

guiVars == <<gui_on, selected_directory, preview_button, generate_button,
             gui_generator, gui_excluded_files, progress_running, threads,
             events, windows, grab>>

vars == <<rulesVars, progVars, cliVars, guiVars>>

(***************************************************************************)
(* Bounds of the model.                                                    *)
(***************************************************************************)
MaxLines == 2          \* lines of an ignore source
MaxPreviews == 2       \* times Preview Files is pressed in one run of the GUI
MaxGenerations == 1    \* times Generate Documentation is pressed in one run
MaxRetries == 1        \* further presses of Generate Documentation in SpecPreview

(***************************************************************************)
(* str helpers                                                             *)
(***************************************************************************)
Whitespace == {" ", "\t", "\n", "\r"}

startswith(s, c) == Len(s) > 0 /\ Head(s) = c

endswith(s, c) == Len(s) > 0 /\ SubSeq(s, Len(s), Len(s)) = c

contains(s, c) == \E i \in 1..Len(s) : SubSeq(s, i, i) = c

RECURSIVE lstrip(_)
lstrip(s) == IF Len(s) > 0 /\ Head(s) \in Whitespace THEN lstrip(Tail(s)) ELSE s

RECURSIVE rstrip(_)
rstrip(s) ==
    IF Len(s) > 0 /\ SubSeq(s, Len(s), Len(s)) \in Whitespace
    THEN rstrip(SubSeq(s, 1, Len(s) - 1))
    ELSE s

\* str.strip()
strip(s) == rstrip(lstrip(s))

\* str.replace(old, new) for one-character old and new
RECURSIVE replace(_, _, _)
replace(s, old, new) ==
    IF Len(s) = 0 THEN s
    ELSE (IF Head(s) = old THEN new ELSE Head(s)) \o replace(Tail(s), old, new)

\* the index of the last "/" of s, 0 when there is none
RECURSIVE rfind_slash(_, _)
rfind_slash(s, i) ==
    IF i = 0 THEN 0
    ELSE IF SubSeq(s, i, i) = "/" THEN i
    ELSE rfind_slash(s, i - 1)

\* os.path.basename (posixpath): what follows the last "/"
basename(path) == SubSeq(path, rfind_slash(path, Len(path)) + 1, Len(path))

(***************************************************************************)
(* fnmatch.fnmatch(name, pat) on a POSIX host (normcase is the identity):  *)
(* the pattern is translated to a regular expression matched against the   *)
(* whole name, "*" as ".*" and "?" as "." with DOTALL, so both cross "/".  *)
(* Every other character is a literal.  Patterns here are over characters  *)
(* other than "[": the character-class branch is outside the inputs.       *)
(***************************************************************************)
RECURSIVE fnmatch(_, _)
fnmatch(name, pat) ==
    IF Len(pat) = 0 THEN Len(name) = 0
    ELSE IF Head(pat) = "*"
         THEN \/ fnmatch(name, Tail(pat))
              \/ (Len(name) > 0 /\ fnmatch(Tail(name), pat))
    ELSE IF Head(pat) = "?"
         THEN Len(name) > 0 /\ fnmatch(Tail(name), Tail(pat))
    ELSE /\ Len(name) > 0
         /\ Head(name) = Head(pat)
         /\ fnmatch(Tail(name), Tail(pat))

(***************************************************************************)
(* GitignoreParser._matches_pattern                                        *)
(***************************************************************************)
\* A faulty variant: every pattern taken as anchored at the root (C12 must
\* notice).
matches_stripped_anchored(path, pattern) ==
    IF startswith(pattern, "/")
    THEN fnmatch(path, Tail(pattern))
    ELSE fnmatch(path, pattern)

\* the part after the directory-only check: pattern has lost its trailing "/"
matches_stripped(path, pattern) ==
    IF startswith(pattern, "/")
    THEN fnmatch(path, Tail(pattern))
    ELSE IF contains(pattern, "/")
    THEN fnmatch(path, pattern) \/ fnmatch(path, "*/" \o pattern)
    ELSE fnmatch(basename(path), pattern) \/ fnmatch(path, "*/" \o pattern)

\* A faulty variant: the directory-only check forgotten (C10 must notice).
matches_pattern_no_dir_check(path, pattern, is_dir) ==
    IF endswith(pattern, "/")
    THEN matches_stripped(path, SubSeq(pattern, 1, Len(pattern) - 1))
    ELSE matches_stripped(path, pattern)

matches_pattern(path, pattern, is_dir) ==
    IF endswith(pattern, "/")
    THEN IF ~is_dir
         THEN FALSE
         ELSE matches_stripped(path, SubSeq(pattern, 1, Len(pattern) - 1))
    ELSE matches_stripped(path, pattern)

(***************************************************************************)
(* GitignoreParser.should_ignore: two loops, each left at the first match. *)
(***************************************************************************)
\* A faulty variant: only the first rule of the list is consulted (C14 must
\* notice).
loop_matches_first_only(pats, i, path, is_dir) ==
    i <= Len(pats) /\ i = 1 /\ matches_pattern(path, pats[i], is_dir)

\* for pattern in pats[i..]: if self._matches_pattern(...): <found>; break
RECURSIVE loop_matches(_, _, _, _)
loop_matches(pats, i, path, is_dir) ==
    IF i > Len(pats) THEN FALSE
    ELSE IF matches_pattern(path, pats[i], is_dir) THEN TRUE
    ELSE loop_matches(pats, i + 1, path, is_dir)

\* A faulty variant: the negation loop forgotten (C2 must notice).
should_ignore_no_negation(pats, negs, file_path, is_dir) ==
    loop_matches(pats, 1, replace(file_path, "\\", "/"), is_dir)

\* A faulty variant: a negation rule flips the outcome whether or not a
\* match rule matched (C13 must notice).
should_ignore_negation_flips(pats, negs, file_path, is_dir) ==
    LET normalized_path == replace(file_path, "\\", "/")
    IN  loop_matches(pats, 1, normalized_path, is_dir)
            # loop_matches(negs, 1, normalized_path, is_dir)

should_ignore(pats, negs, file_path, is_dir) ==
    LET normalized_path == replace(file_path, "\\", "/")
        ignored == loop_matches(pats, 1, normalized_path, is_dir)
    IN  IF ignored
        THEN ~loop_matches(negs, 1, normalized_path, is_dir)
        ELSE FALSE

(***************************************************************************)
(* GitignoreParser._parse_gitignore: what one line of the source does to   *)
(* the two lists.                                                          *)
(***************************************************************************)
\* A faulty variant: a negation line is also stored as a match rule (C27
\* must notice).
parse_line_negation_in_both(pats, negs, raw) ==
    LET line == strip(raw)
    IN  IF Len(line) = 0 \/ startswith(line, "#")
        THEN [patterns |-> pats, negation_patterns |-> negs]
        ELSE IF startswith(line, "!")
        THEN [patterns |-> Append(pats, line),
              negation_patterns |-> Append(negs, Tail(line))]
        ELSE [patterns |-> Append(pats, line), negation_patterns |-> negs]

parse_line(pats, negs, raw) ==
    LET line == strip(raw)
    IN  IF Len(line) = 0 \/ startswith(line, "#")
        THEN [patterns |-> pats, negation_patterns |-> negs]
        ELSE IF startswith(line, "!")
        THEN [patterns |-> pats, negation_patterns |-> Append(negs, Tail(line))]
        ELSE [patterns |-> Append(pats, line), negation_patterns |-> negs]

RECURSIVE parse_lines(_, _, _, _)
parse_lines(pats, negs, lines, i) ==
    IF i > Len(lines) THEN [patterns |-> pats, negation_patterns |-> negs]
    ELSE LET r == parse_line(pats, negs, lines[i])
         IN  parse_lines(r.patterns, r.negation_patterns, lines, i + 1)

(***************************************************************************)
(* Character order and case, for sorted(..., key=... x.name.lower()).      *)
(***************************************************************************)
\* the characters of the model's names, in code-point order
CodePoints ==
    " !#*-./0123456789?ABCDEFGHIJKLMNOPQRSTUVWXYZ\\_abcdefghijklmnopqrstuvwxyz~"

UpperCase == "ABCDEFGHIJKLMNOPQRSTUVWXYZ"

LowerCase == "abcdefghijklmnopqrstuvwxyz"

index_in(s, c) == CHOOSE i \in 1..Len(s) : SubSeq(s, i, i) = c

ord(c) == index_in(CodePoints, c)

lower_char(c) ==
    IF contains(UpperCase, c)
    THEN LET i == index_in(UpperCase, c) IN SubSeq(LowerCase, i, i)
    ELSE c

\* str.lower()
RECURSIVE lower(_)
lower(s) == IF Len(s) = 0 THEN s ELSE lower_char(Head(s)) \o lower(Tail(s))

\* a < b for Python strings
RECURSIVE str_lt(_, _)
str_lt(a, b) ==
    IF Len(b) = 0 THEN FALSE
    ELSE IF Len(a) = 0 THEN TRUE
    ELSE IF Head(a) = Head(b) THEN str_lt(Tail(a), Tail(b))
    ELSE ord(Head(a)) < ord(Head(b))

(***************************************************************************)
(* The file system.  A root is [kind, entries, has_gitignore, gitignore]:  *)
(* kind is "dir", "file", "missing" or "unsearchable" (a directory whose   *)
(* permissions let it be listed but let nothing beneath it be stat'ed);    *)
(* entries are the entries beneath the                                     *)
(* root, each [path, kind, readable] with path relative to the root, kind  *)
(* "dir", "file" or "other" (neither is_file() nor is_dir()), readable     *)
(* FALSE for a directory whose iterdir() raises PermissionError;           *)
(* has_gitignore says whether <root>/.gitignore exists and gitignore is    *)
(* the sequence of the lines a read of it yields before it ends or fails.  *)
(* The .gitignore file is itself an entry of the root when it exists.      *)
(***************************************************************************)

GitignoreEntry == [path |-> ".gitignore", kind |-> "file", readable |-> TRUE]

entries_of(root) ==
    root.entries \cup (IF root.has_gitignore THEN {GitignoreEntry} ELSE {})

\* item.parent.relative_to(root), "" for the root itself
dirname(path) ==
    LET k == rfind_slash(path, Len(path))
    IN  IF k = 0 THEN "" ELSE SubSeq(path, 1, k - 1)

\* current_path.iterdir()
iterdir(root, current) == { e \in entries_of(root) : dirname(e.path) = current }

\* key=lambda x: (x.is_file(), x.name.lower())
key_lt(x, y) ==
    LET fx == (x.kind = "file")
        fy == (y.kind = "file")
    IN  IF fx # fy THEN fy
        ELSE str_lt(lower(basename(x.path)), lower(basename(y.path)))

\* sorted(items, key=...); the trees of the model hold no two entries of a
\* directory with equal keys, so the order is determined
RECURSIVE sorted_items(_)
sorted_items(items) ==
    IF items = {} THEN << >>
    ELSE LET first == CHOOSE x \in items : \A y \in items \ {x} : ~key_lt(y, x)
         IN  <<first>> \o sorted_items(items \ {first})

(***************************************************************************)
(* RepoDocumentationGenerator                                              *)
(***************************************************************************)
DEFAULT_IGNORE_PATTERNS ==
    {
      "node_modules", "bower_components", "jspm_packages", "bin", "obj",
      "packages", "*.nupkg", "__pycache__", "*.pyc", "*.pyo", "*.pyd",
      ".Python", "env", "venv", ".env", ".venv", "pip-log.txt",
      "pip-delete-this-directory.txt", ".tox", ".coverage",
      ".pytest_cache", "htmlcov", ".cache", "nosetests.xml",
      "coverage.xml", "*.cover", "*.log", ".git", ".nyc_output", ".vscode",
      ".idea", "*.swp", "*.swo", "*~", ".DS_Store", ".DS_Store?", "._*",
      ".Spotlight-V100", ".Trashes", "ehthumbs.db", "Thumbs.db", ".tmp",
      "tmp", "temp", "*.tmp", "*.temp", ".sass-cache", ".next", ".nuxt",
      "dist", "build", "out", "logs", "npm-debug.log*", "yarn-debug.log*",
      "yarn-error.log*", "README.md", "readme.md", "README.txt",
      "readme.txt", "CHANGELOG.md", "changelog.md", "LICENSE", "license",
      "LICENSE.md", "license.md", "CONTRIBUTING.md", "contributing.md"
    }

\* GitignoreParser(self.root_path / '.gitignore')
GitignoreParser(root) ==
    IF root.kind = "dir" /\ root.has_gitignore
    THEN parse_lines(<< >>, << >>, root.gitignore, 1)
    ELSE [patterns |-> << >>, negation_patterns |-> << >>]

\* A faulty variant: the default registry is not consulted (C15 must notice).
should_ignore_item_rules_only(parser, item, relative_path) ==
    should_ignore(parser.patterns, parser.negation_patterns, relative_path,
                  item.kind = "dir")

\* A faulty variant: a negation rule of the ignore source also restores an
\* entry that a default pattern drops (C1 must notice).
should_ignore_item_negation_wins(parser, item, relative_path) ==
    LET item_name == basename(item.path)
        is_dir == (item.kind = "dir")
    IN  IF \E pattern \in DEFAULT_IGNORE_PATTERNS :
               fnmatch(item_name, pattern) \/ fnmatch(relative_path, pattern)
        THEN ~loop_matches(parser.negation_patterns, 1, relative_path, is_dir)
        ELSE should_ignore(parser.patterns, parser.negation_patterns,
                           relative_path, is_dir)

should_ignore_item(parser, item, relative_path) ==
    LET item_name == basename(item.path)
        is_dir == (item.kind = "dir")
    IN  IF \E pattern \in DEFAULT_IGNORE_PATTERNS :
               fnmatch(item_name, pattern) \/ fnmatch(relative_path, pattern)
        THEN TRUE
        ELSE should_ignore(parser.patterns, parser.negation_patterns,
                           relative_path, is_dir)

\* the dict appended to file_list (size and modified time left out)
file_info(item, level) ==
    [path |-> item.path,
     name |-> basename(item.path),
     level |-> level,
     directory |-> IF dirname(item.path) = "" THEN "." ELSE dirname(item.path)]

\* A faulty variant: a directory that cannot be listed is listed all the
\* same (C24 must notice).
is_readable_unchecked(root, current) == TRUE

\* current_path.iterdir() and the sort do not raise PermissionError
is_readable(root, current) ==
    current = "" \/ \A e \in entries_of(root) : e.path = current => e.readable

\* _collect_files(current_path, level): file_list after the call, given
\* file_list before it
RECURSIVE collect_files(_, _, _, _, _)
RECURSIVE collect_items(_, _, _, _, _, _)
RECURSIVE collect_items_descend_ignored(_, _, _, _, _, _)

\* A faulty variant: an ignored directory is not emitted but is still
\* walked (C3 must notice).
collect_items_descend_ignored(root, parser, items, i, level, file_list) ==
    IF i > Len(items) THEN file_list
    ELSE LET item == items[i]
             rest(fl) == collect_items_descend_ignored(root, parser, items,
                                                       i + 1, level, fl)
         IN  IF item.kind = "file"
             THEN IF should_ignore_item(parser, item, item.path)
                  THEN rest(file_list)
                  ELSE rest(Append(file_list, file_info(item, level)))
             ELSE IF item.kind = "dir"
             THEN rest(collect_files(root, parser, item.path, level + 1, file_list))
             ELSE rest(file_list)

collect_items(root, parser, items, i, level, file_list) ==
    IF i > Len(items) THEN file_list
    ELSE LET item == items[i]
         IN  IF should_ignore_item(parser, item, item.path)
             THEN collect_items(root, parser, items, i + 1, level, file_list)
             ELSE IF item.kind = "file"
             THEN collect_items(root, parser, items, i + 1, level,
                                Append(file_list, file_info(item, level)))
             ELSE IF item.kind = "dir"
             THEN collect_items(root, parser, items, i + 1, level,
                      collect_files(root, parser, item.path, level + 1, file_list))
             ELSE collect_items(root, parser, items, i + 1, level, file_list)

collect_files(root, parser, current, level, file_list) ==
    IF ~is_readable(root, current)
    THEN file_list
    ELSE collect_items(root, parser, sorted_items(iterdir(root, current)), 1,
                       level, file_list)

\* collect_all_files(): the list it builds
collect_all_files(root, parser) == collect_files(root, parser, "", 0, << >>)

\* A faulty variant: the included records come out last first (C19 must
\* notice).
RECURSIVE included_of_reversed(_, _)
included_of_reversed(file_list, excluded_files) ==
    IF file_list = << >> THEN << >>
    ELSE included_of_reversed(Tail(file_list), excluded_files)
         \o (IF Head(file_list).path \notin excluded_files
             THEN <<Head(file_list)>> ELSE << >>)

\* get_included_files()
RECURSIVE included_of(_, _)
included_of(file_list, excluded_files) ==
    IF file_list = << >> THEN << >>
    ELSE (IF Head(file_list).path \notin excluded_files
          THEN <<Head(file_list)>> ELSE << >>)
         \o included_of(Tail(file_list), excluded_files)

NoCall == [op |-> "none"]

\* the other components are idle
ProgOff ==
    /\ disk = << >>
    /\ generators = << >>
    /\ lists = << >>
    /\ written = << >>

CliOff ==
    /\ cli_pc = "off"
    /\ cli_dir = ""
    /\ exit_status = -1

GuiOff ==
    /\ gui_on = FALSE
    /\ selected_directory = ""
    /\ preview_button = "disabled"
    /\ generate_button = "disabled"
    /\ gui_generator = 0
    /\ gui_excluded_files = {}
    /\ progress_running = FALSE
    /\ threads = << >>
    /\ events = << >>
    /\ windows = << >>
    /\ grab = 0

RulesOff ==
    /\ rpc = "off"
    /\ patterns = << >>
    /\ negation_patterns = << >>
    /\ lines_read = 0
    /\ call = NoCall
    /\ ret = FALSE

(***************************************************************************)
(* Objects.  A generator is [root, parser, file_list, excluded_files,      *)
(* walk]; file_list is the index in lists of the list object the attribute *)
(* refers to, so that two references to one list are seen as such.  walk   *)
(* is no attribute of the object: it is what _collect_files appends, in    *)
(* order, when it walks this root with this rule set; the disk does not    *)
(* change during a run, so the root and the rules fix it.                  *)
(***************************************************************************)
\* RepoDocumentationGenerator.__init__, for a root that is a directory
new_generator(dir, list_id) ==
    [root |-> dir,
     parser |-> GitignoreParser(disk[dir]),
     file_list |-> list_id,
     excluded_files |-> {},
     walk |-> collect_all_files(disk[dir], GitignoreParser(disk[dir]))]

paths_of(file_list) == { file_list[i].path : i \in 1..Len(file_list) }

path_seq(file_list) == [i \in 1..Len(file_list) |-> file_list[i].path]

\* get_included_files() of generator g
get_included_files(g) ==
    included_of(lists[generators[g].file_list], generators[g].excluded_files)

\* what save_markdown() puts on disk: the records generate_markdown() renders
output_of(g) == [generator |-> g, files |-> path_seq(get_included_files(g))]

(***************************************************************************)
(* main(), command-line mode: construct, collect, save, report.            *)
(***************************************************************************)
\* A faulty variant: the constructor does not look at the root path (C22
\* must notice).
CliConstruct_unchecked ==
    /\ cli_pc = "start"
    /\ lists' = Append(lists, << >>)
    /\ generators' = Append(generators, new_generator(cli_dir, Len(lists) + 1))
    /\ cli_pc' = "constructed"
    /\ UNCHANGED <<exit_status, disk, written, cli_dir, rulesVars, guiVars>>

\* generator = RepoDocumentationGenerator(args.directory, args.output)
CliConstruct ==
    /\ cli_pc = "start"
    /\ IF disk[cli_dir].kind = "dir"
       THEN /\ lists' = Append(lists, << >>)
            /\ generators' = Append(generators, new_generator(cli_dir, Len(lists) + 1))
            /\ cli_pc' = "constructed"
            /\ UNCHANGED exit_status
       ELSE \* FileNotFoundError / NotADirectoryError: print, return 1; for
            \* an unsearchable root gitignore_path.exists() raises
            \* PermissionError: "Unexpected error", return 1
            /\ cli_pc' = "exit"
            /\ exit_status' = 1
            /\ UNCHANGED <<lists, generators>>
    /\ UNCHANGED <<disk, written, cli_dir, rulesVars, guiVars>>

\* generator.collect_all_files()
CliCollect ==
    /\ cli_pc = "constructed"
    /\ LET g == Len(generators)
       IN  /\ lists' = Append(lists, collect_all_files(disk[generators[g].root],
                                                       generators[g].parser))
           /\ generators' = [generators EXCEPT ![g].file_list = Len(lists) + 1]
    /\ cli_pc' = "collected"
    /\ UNCHANGED <<disk, written, cli_dir, exit_status, rulesVars, guiVars>>

\* output_path = generator.save_markdown(); print(...); return 0
\* or open() raises: "Unexpected error", return 1
CliSave ==
    /\ cli_pc = "collected"
    /\ \E ok \in BOOLEAN :
          IF ok
          THEN /\ written' = <<output_of(Len(generators))>>
               /\ exit_status' = 0
          ELSE /\ exit_status' = 1
               /\ UNCHANGED written
    /\ cli_pc' = "exit"
    /\ UNCHANGED <<disk, generators, lists, cli_dir, rulesVars, guiVars>>

CliNext == CliConstruct \/ CliCollect \/ CliSave

(***************************************************************************)
(* SpecCollect: command-line mode over a pool of trees and ignore sources. *)
(***************************************************************************)
Dir(path) == [path |-> path, kind |-> "dir", readable |-> TRUE]

File(path) == [path |-> path, kind |-> "file", readable |-> TRUE]

ScenarioTree ==
    { Dir("src"), File("src/a.py"), Dir("src/__pycache__"),
      File("src/__pycache__/x.pyc"), File("README.md"), File("debug.log"),
      File("important.log") }

LibTree ==
    { Dir("lib"), File("lib/keep.txt"), Dir("lib/sub"), File("lib/sub/x.c"),
      File("main.c"), Dir("build"), File("build/gen.c"), File("Makefile") }

LockedTree ==
    { [path |-> "docs", kind |-> "dir", readable |-> FALSE],
      File("docs/guide.txt"), Dir("lib"), File("lib/keep.txt"),
      [path |-> "sock", kind |-> "other", readable |-> TRUE], File("zz.c") }

TreePool == { ScenarioTree, LibTree, LockedTree }

CollectLines ==
    { "*.log\n", "!important.log\n", "lib/\n", "!keep.txt\n", "*.c\n",
      "!lib/sub/x.c\n", "/src\n", "# build\n" }

SeqsUpTo(S, n) == UNION { [1..k -> S] : k \in 0..n }

CollectRoots ==
    { [kind |-> "dir", entries |-> t, has_gitignore |-> TRUE, gitignore |-> g] :
        t \in TreePool, g \in SeqsUpTo(CollectLines, MaxLines) }
    \cup { [kind |-> "dir", entries |-> t, has_gitignore |-> FALSE, gitignore |-> << >>] :
             t \in TreePool }
    \cup { [kind |-> k, entries |-> {}, has_gitignore |-> FALSE, gitignore |-> << >>] :
             k \in {"file", "missing"} }
    \cup { [kind |-> "unsearchable", entries |-> t, has_gitignore |-> TRUE,
            gitignore |-> <<"*.log\n">>] : t \in TreePool }

CollectInit ==
    /\ RulesOff
    /\ GuiOff
    /\ \E r \in CollectRoots : disk = [d \in {"repo"} |-> r]
    /\ generators = << >>
    /\ lists = << >>
    /\ written = << >>
    /\ cli_pc = "start"
    /\ cli_dir = "repo"
    /\ exit_status = -1

SpecCollect == CollectInit /\ [][CliNext]_vars

(***************************************************************************)
(* SpecRules: a GitignoreParser is constructed from a source read line by  *)
(* line, then asked one question.  The queries change nothing of the       *)
(* parser, so a second query would see the same object.                    *)
(***************************************************************************)
\* lines an ignore source may hold
LinePool ==
    { "*.log\n", "!important.log\n", "build/\n", "!build/\n", "/src\n",
      "src/a.py\n", "!lib/*\n", "# note\n", "\n", "  tmp \n", "a?c\n",
      "/*.log\n" }

\* relative paths asked about
PathPool ==
    { "debug.log", "important.log", "build", "lib/build", "src", "lib/src",
      "src/a.py", "lib/src/a.py", "tmp", "abc", "lib\\build", "lib/debug.log" }

RulesInit ==
    /\ ProgOff
    /\ CliOff
    /\ GuiOff
    /\ rpc = "parsing"
    /\ patterns = << >>
    /\ negation_patterns = << >>
    /\ lines_read = 0
    /\ call = NoCall
    /\ ret = FALSE

\* one iteration of "for line in f"
ParseLine(raw) ==
    /\ UNCHANGED <<progVars, cliVars, guiVars>>
    /\ rpc = "parsing"
    /\ lines_read < MaxLines
    /\ LET r == parse_line(patterns, negation_patterns, raw)
       IN  /\ patterns' = r.patterns
           /\ negation_patterns' = r.negation_patterns
    /\ lines_read' = lines_read + 1
    /\ UNCHANGED <<rpc, call, ret>>

\* the end of the source, or a read error caught by the except clause:
\* construction returns with the rules parsed so far
ParseEnd ==
    /\ UNCHANGED <<progVars, cliVars, guiVars>>
    /\ rpc = "parsing"
    /\ rpc' = "ready"
    /\ UNCHANGED <<patterns, negation_patterns, lines_read, call, ret>>

ShouldIgnoreCall(path, is_dir) ==
    /\ UNCHANGED <<progVars, cliVars, guiVars>>
    /\ rpc = "ready"
    /\ call = NoCall
    /\ call' = [op |-> "should_ignore", path |-> path, is_dir |-> is_dir]
    /\ ret' = should_ignore(patterns, negation_patterns, path, is_dir)
    /\ UNCHANGED <<rpc, patterns, negation_patterns, lines_read>>

\* _matches_pattern as should_ignore calls it: on one rule of either list
MatchesPatternCall(path, pattern, is_dir) ==
    /\ UNCHANGED <<progVars, cliVars, guiVars>>
    /\ rpc = "ready"
    /\ call = NoCall
    /\ call' = [op |-> "_matches_pattern", path |-> path,
                pattern |-> pattern, is_dir |-> is_dir]
    /\ ret' = matches_pattern(path, pattern, is_dir)
    /\ UNCHANGED <<rpc, patterns, negation_patterns, lines_read>>

Range(s) == { s[i] : i \in 1..Len(s) }

RulesNext ==
    \/ \E raw \in LinePool : ParseLine(raw)
    \/ ParseEnd
    \/ \E path \in PathPool, is_dir \in BOOLEAN : ShouldIgnoreCall(path, is_dir)
    \/ \E path \in PathPool, is_dir \in BOOLEAN :
          \E pattern \in Range(patterns) \cup Range(negation_patterns) :
             MatchesPatternCall(path, pattern, is_dir)

SpecRules == RulesInit /\ [][RulesNext]_vars

(***************************************************************************)
(* The GUI.  Handlers run one at a time on the main thread; each worker    *)
(* thread runs its statements one at a time between them.  A preview       *)
(* window takes the input grab when it is created and releases it when it  *)
(* is destroyed; while a window holds the grab, the buttons of the main    *)
(* window and of the other preview windows receive no input.  Message      *)
(* boxes change no state of the program and are left out.                  *)
(***************************************************************************)
set_at(seq, i, v) == [seq EXCEPT ![i] = v]

(***************************************************************************)
(* Objects nothing refers to any more are freed: a generator that is       *)
(* neither self.generator nor the generator of a running thread, and a     *)
(* list that is neither the file_list of a generator nor held by a queued  *)
(* callback or an open window.  A freed object is kept as a blank.         *)
(***************************************************************************)
FreedGenerator ==
    [root |-> "", parser |-> [patterns |-> << >>, negation_patterns |-> << >>],
     file_list |-> 0, excluded_files |-> {}, walk |-> << >>]

live_generators(gg, ths) == ({gg} \cup { ths[t].gen : t \in 1..Len(ths) }) \ {0}

sweep_generators(gens, gg, ths) ==
    [g \in 1..Len(gens) |->
        IF g \in live_generators(gg, ths) THEN gens[g] ELSE FreedGenerator]

live_lists(gens, evs, wins) ==
    { gens[g].file_list : g \in 1..Len(gens) }
    \cup { evs[i].files_list : i \in 1..Len(evs) }
    \cup { wins[w].files_list : w \in 1..Len(wins) }

sweep_lists(ls, gens, evs, wins) ==
    [l \in 1..Len(ls) |-> IF l \in live_lists(gens, evs, wins) THEN ls[l] ELSE << >>]

\* the generators and lists after a step that leaves them as gens and ls,
\* given the step's self.generator, threads, callbacks and windows
swept(gens, ls) ==
    /\ generators' = sweep_generators(gens, gui_generator', threads')
    /\ lists' = sweep_lists(ls, generators', events', windows')

main_window_active == gui_on /\ grab = 0

\* DocumentationGeneratorGUI.browse_directory, a directory chosen
browse_directory(directory) ==
    /\ main_window_active
    /\ disk[directory].kind = "dir"
    /\ selected_directory' = directory
    /\ preview_button' = "normal"
    /\ generate_button' = "disabled"
    /\ gui_excluded_files' = {}
    /\ UNCHANGED <<gui_on, gui_generator, progress_running, threads, events,
                   windows, grab, progVars, cliVars, rulesVars>>

new_thread(kind) == [kind |-> kind, pc |-> "start", gen |-> 0, todo |-> << >>]

\* the threads once thread t has returned: it holds nothing any more, and
\* the threads that have returned come first
ended(t) ==
    <<[kind |-> threads[t].kind, pc |-> "done", gen |-> 0, todo |-> << >>]>>
    \o SubSeq(threads, 1, t - 1) \o SubSeq(threads, t + 1, Len(threads))

\* DocumentationGeneratorGUI.preview_files
preview_files ==
    /\ main_window_active
    /\ preview_button = "normal"
    /\ Len(generators) < MaxPreviews
    /\ gui_generator' = Len(generators) + 1
    /\ progress_running' = TRUE
    /\ threads' = Append(threads, new_thread("collect"))
    /\ UNCHANGED <<gui_on, selected_directory, preview_button, generate_button,
                   gui_excluded_files, events, windows, grab, disk, written,
                   cliVars, rulesVars>>
    /\ swept(Append(generators, new_generator(selected_directory, Len(lists) + 1)),
             Append(lists, << >>))

generations_started ==
    Cardinality({ t \in 1..Len(threads) : threads[t].kind = "generate" })

\* DocumentationGeneratorGUI.generate_documentation (the button is enabled
\* only once self.generator is set), pressed at most cap times in a run
generate_documentation_upto(cap) ==
    /\ main_window_active
    /\ generate_button = "normal"
    /\ gui_generator # 0
    /\ generations_started < cap
    /\ generate_button' = "disabled"
    /\ preview_button' = "disabled"
    /\ progress_running' = TRUE
    /\ threads' = Append(threads, new_thread("generate"))
    /\ UNCHANGED <<gui_on, selected_directory, gui_generator, gui_excluded_files,
                   events, windows, grab, progVars, cliVars, rulesVars>>

generate_documentation == generate_documentation_upto(MaxGenerations)

(***************************************************************************)
(* _collect_files_thread: files_list = self.generator.collect_all_files(), *)
(* then root.after(0, self._show_file_preview, files_list).                *)
(***************************************************************************)
\* the thread evaluates self.generator
collect_thread_bind(t) ==
    /\ threads[t].kind = "collect" /\ threads[t].pc = "start"
    /\ threads' = set_at(threads, t, [threads[t] EXCEPT !.pc = "bound",
                                                        !.gen = gui_generator])
    /\ UNCHANGED <<gui_on, selected_directory, preview_button, generate_button,
                   gui_generator, gui_excluded_files, progress_running, events,
                   windows, grab, progVars, cliVars, rulesVars>>

\* collect_all_files: self.file_list = [] , and the walk begins; todo is
\* what the walk of the tree will append, in order
collect_thread_reset(t) ==
    /\ threads[t].kind = "collect" /\ threads[t].pc = "bound"
    /\ LET g == threads[t].gen
       IN  /\ threads' = set_at(threads, t,
                  [threads[t] EXCEPT !.pc = "walking",
                                     !.todo = generators[g].walk])
           /\ UNCHANGED <<disk, written, guiVars_but_threads, cliVars, rulesVars>>
           /\ swept([generators EXCEPT ![g].file_list = Len(lists) + 1],
                    Append(lists, << >>))

\* _collect_files: self.file_list.append(file_info), on the list the
\* attribute refers to now
collect_thread_append(t) ==
    /\ threads[t].kind = "collect" /\ threads[t].pc = "walking"
    /\ threads[t].todo # << >>
    /\ LET l == generators[threads[t].gen].file_list
       IN  lists' = set_at(lists, l, Append(lists[l], Head(threads[t].todo)))
    /\ threads' = set_at(threads, t, [threads[t] EXCEPT !.todo = Tail(@)])
    /\ UNCHANGED <<disk, generators, written, guiVars_but_threads, cliVars, rulesVars>>

\* A faulty variant: the scan worker returns without queueing a callback
\* (C26 must notice).
collect_thread_return_silent(t) ==
    /\ threads[t].kind = "collect" /\ threads[t].pc = "walking"
    /\ threads[t].todo = << >>
    /\ threads' = ended(t)
    /\ UNCHANGED <<gui_on, selected_directory, preview_button, generate_button,
                   gui_generator, gui_excluded_files, progress_running, windows,
                   grab, disk, written, events, cliVars, rulesVars>>
    /\ swept(generators, lists)

\* return self.file_list; root.after(0, self._show_file_preview, files_list)
collect_thread_return(t) ==
    /\ threads[t].kind = "collect" /\ threads[t].pc = "walking"
    /\ threads[t].todo = << >>
    /\ events' = Append(events, [handler |-> "_show_file_preview",
                                 files_list |-> generators[threads[t].gen].file_list])
    /\ threads' = ended(t)
    /\ UNCHANGED <<gui_on, selected_directory, preview_button, generate_button,
                   gui_generator, gui_excluded_files, progress_running, windows,
                   grab, disk, written, cliVars, rulesVars>>
    /\ swept(generators, lists)

\* the walk raises (an entry vanished, a listing failed otherwise than by
\* permission): root.after(0, self._preview_error, str(e))
collect_thread_raise(t) ==
    /\ threads[t].kind = "collect" /\ threads[t].pc = "walking"
    /\ events' = Append(events, [handler |-> "_preview_error", files_list |-> 0])
    /\ threads' = ended(t)
    /\ UNCHANGED <<gui_on, selected_directory, preview_button, generate_button,
                   gui_generator, gui_excluded_files, progress_running, windows,
                   grab, disk, written, cliVars, rulesVars>>
    /\ swept(generators, lists)

(***************************************************************************)
(* _generate_documentation_thread: output_path =                           *)
(* self.generator.save_markdown(), then root.after(0, ...).                *)
(***************************************************************************)
\* the thread evaluates self.generator
generate_thread_bind(t) ==
    /\ threads[t].kind = "generate" /\ threads[t].pc = "start"
    /\ threads' = set_at(threads, t, [threads[t] EXCEPT !.pc = "bound",
                                                        !.gen = gui_generator])
    /\ UNCHANGED <<gui_on, selected_directory, preview_button, generate_button,
                   gui_generator, gui_excluded_files, progress_running, events,
                   windows, grab, progVars, cliVars, rulesVars>>

\* save_markdown: content = self.generate_markdown(), which reads
\* get_included_files()
generate_thread_render(t) ==
    /\ threads[t].kind = "generate" /\ threads[t].pc = "bound"
    /\ threads' = set_at(threads, t,
           [threads[t] EXCEPT !.pc = "rendered",
                              !.todo = get_included_files(threads[t].gen)])
    /\ UNCHANGED <<gui_on, selected_directory, preview_button, generate_button,
                   gui_generator, gui_excluded_files, progress_running, events,
                   windows, grab, progVars, cliVars, rulesVars>>

\* save_markdown: open(output_path, 'w') and write, or the open raises
generate_thread_write(t) ==
    /\ threads[t].kind = "generate" /\ threads[t].pc = "rendered"
    /\ \E ok \in BOOLEAN :
          IF ok
          THEN /\ written' = <<[generator |-> threads[t].gen,
                                files |-> path_seq(threads[t].todo)]>>
               /\ events' = Append(events, [handler |-> "_generation_complete",
                                            files_list |-> 0])
          ELSE /\ events' = Append(events, [handler |-> "_generation_error",
                                            files_list |-> 0])
               /\ UNCHANGED written
    /\ threads' = ended(t)
    /\ UNCHANGED <<gui_on, selected_directory, preview_button, generate_button,
                   gui_generator, gui_excluded_files, progress_running, windows,
                   grab, disk, cliVars, rulesVars>>
    /\ swept(generators, lists)

(***************************************************************************)
(* The callbacks queued with root.after, run by the main loop in order.    *)
(***************************************************************************)
\* FilePreviewWindow.update_stats: the numbers the label shows
update_stats(files_list, excluded_files) ==
    LET total_files == Len(lists[files_list])
        selected_files == total_files - Cardinality(excluded_files)
    IN  [included |-> selected_files,
         excluded |-> Cardinality(excluded_files),
         total |-> total_files]

\* FilePreviewWindow.__init__ and populate_file_list
FilePreviewWindow(files_list) ==
    [open |-> TRUE,
     files_list |-> files_list,
     file_items |-> paths_of(lists[files_list]),
     excluded_files |-> {},
     stats |-> update_stats(files_list, {})]

next_event(handler) == events # << >> /\ Head(events).handler = handler

\* DocumentationGeneratorGUI._show_file_preview(files_list)
show_file_preview ==
    /\ gui_on
    /\ next_event("_show_file_preview")
    /\ events' = Tail(events)
    /\ progress_running' = FALSE
    /\ IF lists[Head(events).files_list] = << >>
       THEN UNCHANGED <<windows, grab>>
       ELSE /\ windows' = Append(windows, FilePreviewWindow(Head(events).files_list))
            /\ grab' = Len(windows) + 1
    /\ UNCHANGED <<gui_on, selected_directory, preview_button, generate_button,
                   gui_generator, gui_excluded_files, threads, disk, written,
                   cliVars, rulesVars>>
    /\ swept(generators, lists)

\* DocumentationGeneratorGUI._preview_error
preview_error ==
    /\ gui_on
    /\ next_event("_preview_error")
    /\ events' = Tail(events)
    /\ progress_running' = FALSE
    /\ UNCHANGED <<gui_on, selected_directory, preview_button, generate_button,
                   gui_generator, gui_excluded_files, threads, windows, grab,
                   progVars, cliVars, rulesVars>>

\* DocumentationGeneratorGUI._generation_complete and _generation_error:
\* both stop the progress bar and enable the two buttons
generation_finished(handler) ==
    /\ gui_on
    /\ next_event(handler)
    /\ events' = Tail(events)
    /\ progress_running' = FALSE
    /\ preview_button' = "normal"
    /\ generate_button' = "normal"
    /\ UNCHANGED <<gui_on, selected_directory, gui_generator, gui_excluded_files,
                   threads, windows, grab, progVars, cliVars, rulesVars>>

generation_complete == generation_finished("_generation_complete")

\* A faulty variant: the error handler stops the progress bar and leaves
\* the buttons disabled (C25 must notice).
generation_error_keeps_buttons ==
    /\ gui_on
    /\ next_event("_generation_error")
    /\ events' = Tail(events)
    /\ progress_running' = FALSE
    /\ UNCHANGED <<gui_on, selected_directory, preview_button, generate_button,
                   gui_generator, gui_excluded_files, threads, windows, grab,
                   progVars, cliVars, rulesVars>>

generation_error == generation_finished("_generation_error")

(***************************************************************************)
(* FilePreviewWindow.  highlighted stands for the file items selected in   *)
(* the tree view when the handler runs.                                    *)
(***************************************************************************)
window_active(w) == gui_on /\ windows[w].open /\ grab \in {0, w}

\* the window after a handler left excluded_files as given and called
\* update_stats
with_excluded(w, excluded_files) ==
    set_at(windows, w,
           [windows[w] EXCEPT !.excluded_files = excluded_files,
                              !.stats = update_stats(windows[w].files_list,
                                                     excluded_files)])

\* what a selection handler leaves alone
window_frame ==
    UNCHANGED <<gui_on, selected_directory, preview_button, generate_button,
                gui_generator, gui_excluded_files, progress_running, threads,
                events, grab, progVars, cliVars>>

\* toggle_file_selection on every item of highlighted: toggle_selected, the
\* space and return keys, and a double click (one item)
\* A faulty variant: a toggle only ever excludes (C17 must notice).
toggled_only_excludes(excluded_files, paths) == excluded_files \cup paths

toggled(excluded_files, paths) == (excluded_files \ paths) \cup (paths \ excluded_files)

toggle_selected(w, highlighted) ==
    /\ window_active(w)
    /\ windows' = with_excluded(w, toggled(windows[w].excluded_files, highlighted))
    /\ window_frame

include_selected(w, highlighted) ==
    /\ window_active(w)
    /\ windows' = with_excluded(w, windows[w].excluded_files \ highlighted)
    /\ window_frame

\* A faulty variant: excluding a file that is already excluded includes it
\* again (C18 must notice).
exclude_selected_toggles(w, highlighted) ==
    /\ window_active(w)
    /\ windows' = with_excluded(w, toggled(windows[w].excluded_files, highlighted))
    /\ window_frame

exclude_selected(w, highlighted) ==
    /\ window_active(w)
    /\ windows' = with_excluded(w, windows[w].excluded_files \cup highlighted)
    /\ window_frame

select_all(w) ==
    /\ window_active(w)
    /\ windows' = with_excluded(w, {})
    /\ window_frame

deselect_all(w) ==
    /\ window_active(w)
    /\ windows' = with_excluded(w, windows[w].excluded_files \cup windows[w].file_items)
    /\ window_frame

\* A faulty variant: invert-all excludes every file (C16 must notice).
toggle_all_selection_excludes_all(w) ==
    /\ window_active(w)
    /\ windows' = with_excluded(w, windows[w].file_items)
    /\ window_frame

toggle_all_selection(w) ==
    /\ window_active(w)
    /\ windows' = with_excluded(w, toggled(windows[w].excluded_files,
                                           windows[w].file_items))
    /\ window_frame

\* self.window.destroy(): nothing refers to the window's fields any more
ClosedWindow ==
    [open |-> FALSE, files_list |-> 0, file_items |-> {}, excluded_files |-> {},
     stats |-> [included |-> 0, excluded |-> 0, total |-> 0]]

destroyed(w) == set_at(windows, w, ClosedWindow)

\* FilePreviewWindow.confirm, the warning shown and nothing done
confirm_rejected(w) ==
    /\ window_active(w)
    /\ Cardinality(windows[w].excluded_files) = Len(lists[windows[w].files_list])
    /\ UNCHANGED vars

\* FilePreviewWindow.confirm: self.callback(self.excluded_files), which is
\* DocumentationGeneratorGUI._on_files_selected, then the window is destroyed
confirm(w) ==
    /\ window_active(w)
    /\ Cardinality(windows[w].excluded_files) # Len(lists[windows[w].files_list])
    /\ gui_excluded_files' = windows[w].excluded_files
    /\ generate_button' = "normal"
    /\ windows' = destroyed(w)
    /\ grab' = IF grab = w THEN 0 ELSE grab
    /\ UNCHANGED <<gui_on, selected_directory, preview_button, gui_generator,
                   progress_running, threads, events, disk, written,
                   cliVars, rulesVars>>
    /\ swept([generators EXCEPT
                 ![gui_generator].excluded_files = windows[w].excluded_files],
             lists)

\* A faulty variant: Cancel hands the window's selection to the callback as
\* Confirm does (C21 must notice).
cancel_invokes_callback(w) ==
    /\ window_active(w)
    /\ gui_excluded_files' = windows[w].excluded_files
    /\ generate_button' = "normal"
    /\ windows' = destroyed(w)
    /\ grab' = IF grab = w THEN 0 ELSE grab
    /\ UNCHANGED <<gui_on, selected_directory, preview_button, gui_generator,
                   progress_running, threads, events, disk, written,
                   cliVars, rulesVars>>
    /\ swept([generators EXCEPT
                 ![gui_generator].excluded_files = windows[w].excluded_files],
             lists)

\* FilePreviewWindow.cancel
cancel(w) ==
    /\ window_active(w)
    /\ windows' = destroyed(w)
    /\ grab' = IF grab = w THEN 0 ELSE grab
    /\ UNCHANGED <<gui_on, selected_directory, preview_button, generate_button,
                   gui_generator, gui_excluded_files, progress_running, threads,
                   events, disk, written, cliVars, rulesVars>>
    /\ swept(generators, lists)

(***************************************************************************)
(* Spec: main().  With a directory argument and no --gui the command-line  *)
(* mode runs; otherwise the GUI does.                                      *)
(***************************************************************************)
EmptyRoot(kind) ==
    [kind |-> kind, entries |-> {}, has_gitignore |-> FALSE, gitignore |-> << >>]

\* what the runs of Spec find on disk
ProgramDisk ==
    [d \in {"proj", "docs", "gone", "notes.txt"} |->
        CASE d = "proj" -> [kind |-> "dir",
                            entries |-> {File("a.py"), File("b.py"), File("debug.log")},
                            has_gitignore |-> FALSE, gitignore |-> << >>]
          [] d = "docs" -> [kind |-> "dir", entries |-> {File("README.md")},
                            has_gitignore |-> FALSE, gitignore |-> << >>]
          [] d = "gone" -> EmptyRoot("missing")
          [] d = "notes.txt" -> EmptyRoot("file")]

Init ==
    /\ RulesOff
    /\ disk = ProgramDisk
    /\ generators = << >>
    /\ lists = << >>
    /\ written = << >>
    /\ \/ /\ GuiOff
          /\ cli_pc = "start"
          /\ cli_dir \in DOMAIN ProgramDisk
          /\ exit_status = -1
       \/ /\ CliOff
          /\ gui_on = TRUE
          /\ selected_directory = ""
          /\ preview_button = "disabled"
          /\ generate_button = "disabled"
          /\ gui_generator = 0
          /\ gui_excluded_files = {}
          /\ progress_running = FALSE
          /\ threads = << >>
          /\ events = << >>
          /\ windows = << >>
          /\ grab = 0

CollectThreadNext ==
    \E t \in 1..Len(threads) :
        \/ collect_thread_bind(t)
        \/ collect_thread_reset(t)
        \/ collect_thread_append(t)
        \/ collect_thread_return(t)
        \/ collect_thread_raise(t)

GenerateThreadNext ==
    \E t \in 1..Len(threads) :
        \/ generate_thread_bind(t)
        \/ generate_thread_render(t)
        \/ generate_thread_write(t)

ThreadNext == CollectThreadNext \/ GenerateThreadNext

\* the selection handlers of window w, highlighted the file items chosen
SelectionNext(w) ==
    \/ \E highlighted \in SUBSET windows[w].file_items \ {{}} :
          \/ toggle_selected(w, highlighted)
          \/ include_selected(w, highlighted)
          \/ exclude_selected(w, highlighted)
    \/ select_all(w)
    \/ deselect_all(w)
    \/ toggle_all_selection(w)

\* the Confirm and Cancel buttons of window w
CloseNext(w) ==
    \/ confirm_rejected(w)
    \/ confirm(w)
    \/ cancel(w)

WindowNext ==
    \E w \in 1..Len(windows) :
        \/ SelectionNext(w) /\ UNCHANGED rulesVars
        \/ CloseNext(w)

GuiNext ==
    \/ \E directory \in DOMAIN disk : browse_directory(directory)
    \/ preview_files
    \/ generate_documentation
    \/ show_file_preview
    \/ preview_error
    \/ generation_complete
    \/ generation_error
    \/ ThreadNext
    \/ WindowNext

Next == CliNext \/ GuiNext

Spec == Init /\ [][Next]_vars

(***************************************************************************)
(* Properties of the rule engine, checked under SpecRules.                 *)
(***************************************************************************)
\* the path as should_ignore sees it
asked_path == replace(call.path, "\\", "/")

some_rule_matches(rules) ==
    \E i \in 1..Len(rules) : matches_pattern(asked_path, rules[i], call.is_dir)

\* C2: when at least one match rule matches the path, should_ignore returns
\* FALSE if at least one negation rule matches it too and TRUE if none does.
C2_NegationReversesMatch ==
    (call.op = "should_ignore" /\ some_rule_matches(patterns))
        => (ret = ~some_rule_matches(negation_patterns))

\* C2's case: a path matched by a match rule and by a negation rule, not ignored.
C2_Witness ==
    /\ call.op = "should_ignore"
    /\ some_rule_matches(patterns)
    /\ some_rule_matches(negation_patterns)
    /\ ret = FALSE

\* C10: _matches_pattern returns FALSE for a pattern ending in "/" when the
\* entry is not a directory; so when should_ignore ignores a non-directory
\* entry, some match rule that is not directory-only matches it.
C10_DirOnlyNeverMatchesFile ==
    /\ (call.op = "_matches_pattern" /\ endswith(call.pattern, "/") /\ ~call.is_dir)
          => ret = FALSE
    /\ (call.op = "should_ignore" /\ ~call.is_dir /\ ret = TRUE)
          => \E i \in 1..Len(patterns) :
                /\ ~endswith(patterns[i], "/")
                /\ matches_pattern(asked_path, patterns[i], FALSE)

\* C10's case: a directory-only pattern that would match the path of a
\* directory is asked about a file of that path.
C10_Witness ==
    /\ call.op = "_matches_pattern"
    /\ endswith(call.pattern, "/")
    /\ ~call.is_dir
    /\ matches_pattern(call.path, call.pattern, TRUE)
    /\ ret = FALSE

(***************************************************************************)
(* Properties of the collector, checked under SpecCollect.                 *)
(***************************************************************************)
\* the pass of the run has ended
cli_collected == cli_pc \in {"collected", "exit"} /\ Len(generators) = 1

\* the list generator g holds
file_list_of(g) == lists[generators[g].file_list]

\* the scenario of the specification's section 8
ScenarioRoot ==
    [kind |-> "dir", entries |-> ScenarioTree, has_gitignore |-> TRUE,
     gitignore |-> <<"*.log\n", "!important.log\n">>]

is_scenario == "repo" \in DOMAIN disk /\ disk["repo"] = ScenarioRoot

\* C1 as stated: on the scenario the pass collects exactly src/a.py and
\* important.log.
C1_AsStated ==
    (is_scenario /\ cli_collected)
        => paths_of(file_list_of(1)) = {"src/a.py", "important.log"}

\* C1 amended: on the scenario the pass collects exactly src/a.py and
\* .gitignore; important.log is dropped by the default pattern *.log before
\* the rule set and its negation rule are consulted.
C1_ScenarioCollected ==
    (is_scenario /\ cli_collected)
        => paths_of(file_list_of(1)) = {"src/a.py", ".gitignore"}

\* C1's case: the scenario has been collected.
C1_Witness == is_scenario /\ cli_pc = "collected" /\ Len(file_list_of(1)) = 2

\* path lies beneath directory dir
is_under(path, dir) ==
    Len(path) > Len(dir) + 1 /\ SubSeq(path, 1, Len(dir) + 1) = dir \o "/"

\* the directories of the run's root that the walk skips when it meets them
skipped_dirs ==
    { d \in entries_of(disk[cli_dir]) :
        d.kind = "dir" /\ should_ignore_item(generators[1].parser, d, d.path) }

\* C3: no collected record lies beneath a directory that the default
\* patterns or the rule set skip.
C3_NoRecordUnderSkippedDir ==
    cli_collected
        => \A d \in skipped_dirs :
              \A p \in paths_of(file_list_of(1)) : ~is_under(p, d.path)

\* C3's case: a directory the rule set skips holds a file that no rule
\* ignores, and a directory the default patterns skip holds another; files
\* were collected, neither among them.
C3_Witness ==
    /\ cli_pc = "collected"
    /\ Len(file_list_of(1)) > 0
    /\ \E d \in skipped_dirs, f \in entries_of(disk[cli_dir]) :
          /\ ~(\E pattern \in DEFAULT_IGNORE_PATTERNS : fnmatch(d.path, pattern))
          /\ f.kind = "file"
          /\ is_under(f.path, d.path)
          /\ ~should_ignore_item(generators[1].parser, f, f.path)
    /\ \E d \in skipped_dirs, f \in entries_of(disk[cli_dir]) :
          /\ \E pattern \in DEFAULT_IGNORE_PATTERNS : fnmatch(d.path, pattern)
          /\ f.kind = "file"
          /\ is_under(f.path, d.path)
          /\ ~should_ignore_item(generators[1].parser, f, f.path)

(***************************************************************************)
(* Properties of the program, checked under Spec.                          *)
(***************************************************************************)
\* the list self.generator holds
current_file_list == lists[generators[gui_generator].file_list]

\* C4: save_markdown never writes an output file when get_included_files()
\* is empty: the file written last, if any, documents at least one record.
C4_NoOutputWithoutFiles == written # << >> => written[1].files # << >>

\* the records of window w's list that its excluded set leaves included
window_included(w) ==
    included_of(lists[windows[w].files_list], windows[w].excluded_files)

\* C5: in a preview window that takes input, where every collected file is excluded, a
\* confirm is rejected (the callback does not run, the window stays as it
\* is); where some collected file is included, a confirm is accepted.
C5_ConfirmRejectedIffAllExcluded ==
    \A w \in 1..Len(windows) :
        window_active(w)
            => /\ (window_included(w) = << >>) <=> ENABLED confirm_rejected(w)
               /\ (window_included(w) # << >>) <=> ENABLED confirm(w)

\* C6: in an open preview window the included records and the excluded
\* paths add up to the collected records, and the label shows these counts;
\* once a selection is confirmed, get_included_files returns as many
\* records as the window counted as included.
C6_CountsAddUp ==
    /\ [](\A w \in 1..Len(windows) :
            windows[w].open
                => /\ Len(window_included(w)) + Cardinality(windows[w].excluded_files)
                         = Len(lists[windows[w].files_list])
                   /\ windows[w].stats =
                         [included |-> Len(window_included(w)),
                          excluded |-> Cardinality(windows[w].excluded_files),
                          total |-> Len(lists[windows[w].files_list])])
    /\ [][\A w \in 1..Len(windows) :
            confirm(w)
                => Len(included_of(lists'[generators'[gui_generator].file_list],
                                   generators'[gui_generator].excluded_files))
                      = windows[w].stats.included]_vars

\* the collect threads that have taken generator g and not yet handed its
\* list over
collectors_of(g) ==
    { t \in 1..Len(threads) :
        threads[t].kind = "collect" /\ threads[t].gen = g
        /\ threads[t].pc \in {"bound", "walking"} }

\* C7: while a collection worker is resetting and filling a generator's
\* file list, no other worker has taken that generator (to reset its list
\* or to render it), and the list is held by no preview window and no
\* queued callback.
C7_ScanResultUsedAfterCompletion ==
    \A g \in 1..Len(generators) :
        collectors_of(g) # {}
            => /\ Cardinality({ t \in 1..Len(threads) : threads[t].gen = g }) = 1
               /\ \A w \in 1..Len(windows) :
                     windows[w].open => windows[w].files_list # generators[g].file_list
               /\ \A i \in 1..Len(events) :
                     events[i].files_list # generators[g].file_list

\* C8: the excluded set of the current generator is a subset of the paths
\* of its collected file list.
C8_ExcludedWithinCollected ==
    gui_generator # 0
        => generators[gui_generator].excluded_files \subseteq paths_of(current_file_list)

\* C9: when a collection pass begins on a generator, its excluded set is
\* empty, and a confirmed selection that excludes something is applied to
\* the generator whose list the window showed.
C9_ExcludedResetPerPass ==
    [][/\ \A t \in 1..Len(threads) :
             collect_thread_reset(t) => generators'[threads[t].gen].excluded_files = {}
       /\ \A w \in 1..Len(windows) :
             (confirm(w) /\ windows[w].excluded_files # {})
                => windows[w].files_list = generators[gui_generator].file_list]_vars

(***************************************************************************)
(* Further properties of the rule engine, checked under SpecRules.         *)
(***************************************************************************)
\* the pattern of the call without its trailing "/"
call_pattern_stripped ==
    IF endswith(call.pattern, "/")
    THEN SubSeq(call.pattern, 1, Len(call.pattern) - 1)
    ELSE call.pattern

\* the directory-only check of the call lets the pattern through
call_passes_dir_check == ~endswith(call.pattern, "/") \/ call.is_dir

\* what follows some "/" of path glob-matches pat
proper_suffix_matches(path, pat) ==
    \E i \in 1..Len(path) :
        SubSeq(path, i, i) = "/" /\ fnmatch(SubSeq(path, i + 1, Len(path)), pat)

\* C11: a root-anchored pattern /P matches exactly when the whole relative
\* path glob-matches P, and it does not match a path at depth >= 1 whose
\* base name, or whose part after some "/", glob-matches P.
C11_RootAnchoredOnlyAtRoot ==
    (call.op = "_matches_pattern" /\ startswith(call_pattern_stripped, "/"))
        => LET P == Tail(call_pattern_stripped)
           IN  /\ call_passes_dir_check => (ret = fnmatch(call.path, P))
               /\ proper_suffix_matches(call.path, P) => ret = FALSE

\* C12: for a pattern that does not start with "/" once its trailing "/" is
\* stripped: with an internal "/" the path matches iff it glob-matches the
\* pattern or "*/" + pattern; without one, iff its base name glob-matches
\* the pattern or the path glob-matches "*/" + pattern.  So a bare pattern
\* matches an entry of that base name at every depth.
C12_UnanchoredAtAnyDepth ==
    (/\ call.op = "_matches_pattern"
     /\ call_passes_dir_check
     /\ ~startswith(call_pattern_stripped, "/"))
        => LET pattern == call_pattern_stripped
               at_depth == fnmatch(call.path, "*/" \o pattern)
           IN  /\ contains(pattern, "/")
                     => (ret = (fnmatch(call.path, pattern) \/ at_depth))
               /\ ~contains(pattern, "/")
                     => /\ ret = (fnmatch(basename(call.path), pattern) \/ at_depth)
                        /\ fnmatch(basename(call.path), pattern) => ret = TRUE

\* C12's case: a bare pattern asked about a path at depth >= 1 of that base
\* name, which the whole path does not glob-match; it matches.
C12_Witness ==
    /\ call.op = "_matches_pattern"
    /\ call_passes_dir_check
    /\ ~contains(call_pattern_stripped, "/")
    /\ contains(call.path, "/")
    /\ fnmatch(basename(call.path), call_pattern_stripped)
    /\ ~fnmatch(call.path, call_pattern_stripped)
    /\ ret = TRUE

\* C13: when no match rule matches the path, should_ignore returns FALSE,
\* whatever the negation rules are.
C13_NegationNeverIgnores ==
    (call.op = "should_ignore" /\ ~some_rule_matches(patterns)) => ret = FALSE

\* C13's case: a path that only a negation rule matches, not ignored.
C13_Witness ==
    /\ call.op = "should_ignore"
    /\ ~some_rule_matches(patterns)
    /\ some_rule_matches(negation_patterns)
    /\ ret = FALSE

\* the sequences that hold the elements of seq in another order
Perms(seq) ==
    { [i \in 1..Len(seq) |-> seq[f[i]]] :
        f \in { g \in [1..Len(seq) -> 1..Len(seq)] :
                  \A i, j \in 1..Len(seq) : i # j => g[i] # g[j] } }

\* the sequences that interleave a and b, each kept in its order
Merges(a, b) ==
    LET n == Len(a) + Len(b)
        rank(i, S) == Cardinality({ j \in S : j <= i })
    IN  { [i \in 1..n |-> IF i \in S THEN a[rank(i, S)]
                                      ELSE b[rank(i, (1..n) \ S)]] :
            S \in { T \in SUBSET (1..n) : Cardinality(T) = Len(a) } }

\* source lines that parse to the negation rules negs
negation_lines(negs) == [i \in 1..Len(negs) |-> "!" \o negs[i] \o "\n"]

\* source lines that parse to the match rules pats
match_lines(pats) == [i \in 1..Len(pats) |-> pats[i] \o "\n"]

default_ignored(e) ==
    \E pattern \in DEFAULT_IGNORE_PATTERNS :
        fnmatch(basename(e.path), pattern) \/ fnmatch(e.path, pattern)

\* C15: an entry whose name or relative path glob-matches a default pattern
\* is skipped, and nothing beneath it is collected, whatever the rule set
\* holds: no collected record is such an entry or lies beneath one.
C15_DefaultRegistryFirst ==
    cli_collected
        => \A e \in entries_of(disk[cli_dir]) :
              default_ignored(e)
                  => \A p \in paths_of(file_list_of(1)) :
                        p # e.path /\ ~is_under(p, e.path)

\* C15's case: the pass has collected files, and left out a file that a
\* default pattern matches and that a negation rule of the source matches.
C15_Witness ==
    /\ cli_pc = "collected"
    /\ Len(file_list_of(1)) > 0
    /\ \E e \in entries_of(disk[cli_dir]) :
          /\ e.kind = "file"
          /\ default_ignored(e)
          /\ loop_matches(generators[1].parser.negation_patterns, 1, e.path, FALSE)
          /\ e.path \notin paths_of(file_list_of(1))

(***************************************************************************)
(* SpecPreview: the GUI from the moment _show_file_preview has opened the  *)
(* preview window on the list of a completed scan.  The user works in the  *)
(* window, confirms or cancels, and generates, again after a generation    *)
(* has ended; call records the selection handler that ran last and the     *)
(* excluded set it found.                                                  *)
(***************************************************************************)
\* the directories previewed
PreviewRoots ==
    { ScenarioRoot,
      [kind |-> "dir", entries |-> LibTree, has_gitignore |-> FALSE,
       gitignore |-> << >>] }

\* the GUI once directory was browsed to, Preview Files pressed, the scan
\* worker run to its end and its list shown
PreviewOpened(directory) ==
    /\ gui_on = TRUE
    /\ selected_directory = directory
    /\ preview_button = "normal"
    /\ generate_button = "disabled"
    /\ gui_generator = 1
    /\ gui_excluded_files = {}
    /\ progress_running = FALSE
    /\ generators = <<[new_generator(directory, 2) EXCEPT !.file_list = 2]>>
    /\ lists = << << >>, collect_all_files(disk[directory], generators[1].parser) >>
    /\ lists[2] # << >>
    /\ written = << >>
    /\ threads = <<[kind |-> "collect", pc |-> "done", gen |-> 0, todo |-> << >>]>>
    /\ events = << >>
    /\ windows = <<FilePreviewWindow(2)>>
    /\ grab = 1

PreviewInit ==
    /\ RulesOff
    /\ CliOff
    /\ \E r \in PreviewRoots : disk = [d \in {"repo"} |-> r]
    /\ PreviewOpened("repo")

\* the handler op of window w has run on the items highlighted
called(op, w, highlighted) ==
    /\ call' = [op |-> op, window |-> w, highlighted |-> highlighted,
                excluded_files |-> windows[w].excluded_files]
    /\ UNCHANGED <<rpc, patterns, negation_patterns, lines_read, ret>>

PreviewSelectionNext ==
    \E w \in 1..Len(windows) :
        \/ \E highlighted \in SUBSET windows[w].file_items \ {{}} :
              \/ toggle_selected(w, highlighted)
                    /\ called("toggle_selected", w, highlighted)
              \/ include_selected(w, highlighted)
                    /\ called("include_selected", w, highlighted)
              \/ exclude_selected(w, highlighted)
                    /\ called("exclude_selected", w, highlighted)
        \/ select_all(w) /\ called("select_all", w, {})
        \/ deselect_all(w) /\ called("deselect_all", w, {})
        \/ toggle_all_selection(w) /\ called("toggle_all_selection", w, {})

PreviewCloseNext == \E w \in 1..Len(windows) : CloseNext(w)

PreviewNext ==
    \/ PreviewSelectionNext
    \/ PreviewCloseNext
    \/ generate_documentation_upto(MaxGenerations + MaxRetries)
    \/ GenerateThreadNext
    \/ generation_complete
    \/ generation_error

SpecPreview == PreviewInit /\ [][PreviewNext]_vars

(***************************************************************************)
(* Properties of the preview window, checked under SpecPreview.            *)
(***************************************************************************)
\* the window of the recorded call still takes input
call_window_active == call.op # "none" /\ window_active(call.window)

\* the excluded set of the window of the recorded call
call_excluded_now == windows[call.window].excluded_files

\* C16: toggle_all_selection leaves the complement, within the known paths,
\* of the excluded set it found, and run once more it leaves the excluded
\* set it found the first time.
C16_InvertAllInvolution ==
    (call.op = "toggle_all_selection" /\ call_window_active)
        => /\ call_excluded_now
                 = windows[call.window].file_items \ call.excluded_files
           /\ ENABLED (/\ toggle_all_selection(call.window)
                       /\ UNCHANGED rulesVars
                       /\ windows'[call.window].excluded_files = call.excluded_files)
           /\ ~ENABLED (/\ toggle_all_selection(call.window)
                        /\ UNCHANGED rulesVars
                        /\ windows'[call.window].excluded_files # call.excluded_files)

\* C16's case: toggle_all_selection has run on an excluded set that was
\* neither empty nor everything.
C16_Witness ==
    /\ call.op = "toggle_all_selection"
    /\ call_window_active
    /\ call.excluded_files # {}
    /\ call.excluded_files # windows[call.window].file_items
    /\ call_excluded_now # call.excluded_files

\* C17: toggling known paths flips the membership of each of them in the
\* excluded set and leaves the membership of every other path as it was;
\* the same toggle run once more leaves the excluded set it found the first
\* time.
C17_ToggleFlipsOnePath ==
    (call.op = "toggle_selected" /\ call_window_active)
        => /\ \A q \in windows[call.window].file_items \cup call.excluded_files
                         \cup call_excluded_now :
                 (q \in call_excluded_now)
                     <=> (IF q \in call.highlighted
                          THEN q \notin call.excluded_files
                          ELSE q \in call.excluded_files)
           /\ ENABLED (/\ toggle_selected(call.window, call.highlighted)
                       /\ UNCHANGED rulesVars
                       /\ windows'[call.window].excluded_files = call.excluded_files)
           /\ ~ENABLED (/\ toggle_selected(call.window, call.highlighted)
                        /\ UNCHANGED rulesVars
                        /\ windows'[call.window].excluded_files # call.excluded_files)

\* C17's case: one excluded path has been toggled while another path was
\* excluded and a third was not; the toggled path is included again.
C17_Witness ==
    /\ call.op = "toggle_selected"
    /\ call_window_active
    /\ \E p \in call.excluded_files :
          /\ call.highlighted = {p}
          /\ call_excluded_now = call.excluded_files \ {p}
          /\ call_excluded_now # {}
          /\ call_excluded_now # windows[call.window].file_items \ {p}

\* C18: after exclude_selected every highlighted path is excluded, after
\* include_selected none is, the other paths are as they were, and the same
\* handler run once more on the same highlighted paths changes nothing.
C18_BulkOpsIdempotent ==
    /\ (call.op = "exclude_selected" /\ call_window_active)
          => /\ call_excluded_now = call.excluded_files \cup call.highlighted
             /\ ENABLED (/\ exclude_selected(call.window, call.highlighted)
                         /\ UNCHANGED rulesVars
                         /\ windows' = windows)
             /\ ~ENABLED (/\ exclude_selected(call.window, call.highlighted)
                          /\ UNCHANGED rulesVars
                          /\ windows' # windows)
    /\ (call.op = "include_selected" /\ call_window_active)
          => /\ call_excluded_now = call.excluded_files \ call.highlighted
             /\ ENABLED (/\ include_selected(call.window, call.highlighted)
                         /\ UNCHANGED rulesVars
                         /\ windows' = windows)
             /\ ~ENABLED (/\ include_selected(call.window, call.highlighted)
                          /\ UNCHANGED rulesVars
                          /\ windows' # windows)

\* C18's case: exclude_selected has run on highlighted paths of which one
\* was excluded already and one was not, while a path outside them was
\* excluded and another was not.
C18_Witness ==
    /\ call.op = "exclude_selected"
    /\ call_window_active
    /\ call.highlighted \cap call.excluded_files # {}
    /\ call.highlighted \ call.excluded_files # {}
    /\ call.excluded_files \ call.highlighted # {}
    /\ windows[call.window].file_items \ call_excluded_now # {}

\* the indices of the records of file_list whose path is not excluded
kept_indices(file_list, excluded_files) ==
    { i \in 1..Len(file_list) : file_list[i].path \notin excluded_files }

\* the records at the indices S of file_list, in the order of the indices
records_at(file_list, S) ==
    [k \in 1..Cardinality(S) |->
        file_list[CHOOSE i \in S : Cardinality({ j \in S : j <= i }) = k]]

\* a generation worker has called get_included_files and holds its result
has_rendered(t) == threads[t].kind = "generate" /\ threads[t].pc = "rendered"

\* C19: get_included_files returns the records of the collected list whose
\* path is not in the excluded set, in the order of the list; the list is
\* still what the scan collected and the excluded set what was confirmed.
C19_IncludedIsSubsequence ==
    \A t \in 1..Len(threads) :
        has_rendered(t)
            => LET g == generators[threads[t].gen]
               IN  /\ threads[t].todo
                         = records_at(lists[g.file_list],
                                      kept_indices(lists[g.file_list], g.excluded_files))
                   /\ lists[g.file_list] = collect_all_files(disk[g.root], g.parser)
                   /\ g.excluded_files = gui_excluded_files

\* C19's case: get_included_files has returned two records or more, with a
\* record excluded that the list holds between two of them.
C19_Witness ==
    \E t \in 1..Len(threads) :
        /\ has_rendered(t)
        /\ LET file_list == lists[generators[threads[t].gen].file_list]
               excluded_files == generators[threads[t].gen].excluded_files
           IN  /\ Len(threads[t].todo) >= 2
               /\ \E i, j, k \in 1..Len(file_list) :
                     /\ i < j /\ j < k
                     /\ file_list[i].path \notin excluded_files
                     /\ file_list[j].path \in excluded_files
                     /\ file_list[k].path \notin excluded_files

(***************************************************************************)
(* Further properties of the program, checked under Spec.                  *)
(***************************************************************************)
\* C20: in every reachable state, a second press of Preview Files during a
\* running scan included, no two records of a generator's collected list
\* have the same path.
C20_PathsUniqueInList ==
    \A g \in live_generators(gui_generator, threads) :
        generators[g].file_list # 0
            => LET file_list == lists[generators[g].file_list]
               IN  \A i, j \in 1..Len(file_list) :
                       file_list[i].path = file_list[j].path => i = j

(***************************************************************************)
(* Further properties of the preview window, checked under SpecPreview.    *)
(***************************************************************************)
\* C21: Cancel changes nothing outside the window: the selection callback
\* does not run (self.excluded_files and the Generate button stay as they
\* were), the current generator keeps its excluded set and its file list,
\* and no output file is written.
C21_CancelChangesNothingOutside ==
    [][\A w \in 1..Len(windows) :
          cancel(w)
             => /\ gui_excluded_files' = gui_excluded_files
                /\ generate_button' = generate_button
                /\ preview_button' = preview_button
                /\ gui_generator' = gui_generator
                /\ generators'[gui_generator].excluded_files
                      = generators[gui_generator].excluded_files
                /\ lists'[generators'[gui_generator].file_list] = current_file_list
                /\ written' = written
                /\ events' = events
                /\ threads' = threads]_vars

\* C21's case: files were excluded in the window and the window was then
\* cancelled; nothing was confirmed, so Generate is still disabled.
C21_Witness ==
    /\ call.op = "exclude_selected"
    /\ ~windows[1].open
    /\ generate_button = "disabled"
    /\ generations_started = 0
    /\ generators[1].excluded_files = {}
    /\ written = << >>

(***************************************************************************)
(* Error handling of the collector, checked under SpecCollect.             *)
(***************************************************************************)
\* C22: for a root path that does not exist or is not a directory the
\* constructor raises: no generator exists, nothing is listed or collected,
\* and command-line mode ends with status 1 and no output file.
C22_BadRootFailsAtConstruction ==
    (cli_pc # "start" /\ disk[cli_dir].kind \in {"file", "missing"})
        => /\ cli_pc = "exit"
           /\ exit_status = 1
           /\ generators = << >>
           /\ lists = << >>
           /\ written = << >>

\* C22's case: main() has returned for a root path that names a file.
C22_Witness ==
    /\ disk[cli_dir].kind = "file"
    /\ cli_pc = "exit"
    /\ exit_status = 1

\* the root path names a directory
root_is_directory == disk[cli_dir].kind \in {"dir", "unsearchable"}

\* C23: constructing the rule set never fails because of the ignore source:
\* for a root that is a directory the constructor returns; the rule set is
\* empty when there is no ignore file and otherwise holds the rules of the
\* lines read before the read ended or failed; the pass then runs with
\* those rules.
C23_RuleSetConstructionNeverFails ==
    (cli_pc # "start" /\ root_is_directory)
        => /\ Len(generators) = 1
           /\ generators[1].parser
                 = (IF disk[cli_dir].has_gitignore
                    THEN parse_lines(<< >>, << >>, disk[cli_dir].gitignore, 1)
                    ELSE [patterns |-> << >>, negation_patterns |-> << >>])
           /\ cli_pc \in {"collected", "exit"}
                 => file_list_of(1)
                       = collect_all_files(disk[cli_dir], generators[1].parser)

\* the directories of the run's root whose listing raises PermissionError
unreadable_dirs ==
    { d \in entries_of(disk[cli_dir]) : d.kind = "dir" /\ ~d.readable }

\* a file the walk has to emit: no pattern drops it, and every directory
\* above it can be listed and is not dropped either
eligible_files ==
    { f \in entries_of(disk[cli_dir]) :
        /\ f.kind = "file"
        /\ ~should_ignore_item(generators[1].parser, f, f.path)
        /\ \A d \in entries_of(disk[cli_dir]) :
              is_under(f.path, d.path)
                 => /\ d.kind = "dir"
                    /\ d.readable
                    /\ ~should_ignore_item(generators[1].parser, d, d.path) }

\* C24: a directory whose listing fails with a permission failure gives no
\* record and no error, and the walk goes on: once the pass has returned,
\* no record lies beneath such a directory and every eligible file of every
\* other directory is in the list.
C24_UnreadableDirSkippedWalkContinues ==
    (cli_pc # "start" /\ disk[cli_dir].kind = "dir" /\ unreadable_dirs # {})
        => /\ cli_pc # "constructed" => cli_collected
           /\ cli_collected
                 => /\ \A d \in unreadable_dirs :
                          \A p \in paths_of(file_list_of(1)) : ~is_under(p, d.path)
                    /\ \A f \in eligible_files : f.path \in paths_of(file_list_of(1))

\* C24's case: the walk met a directory it could not list, which no pattern
\* drops and which holds a file no pattern drops, and then emitted a file
\* of a sibling directory listed after it.
C24_Witness ==
    /\ cli_pc = "collected"
    /\ \E d \in unreadable_dirs :
          /\ ~should_ignore_item(generators[1].parser, d, d.path)
          /\ \E f \in entries_of(disk[cli_dir]) :
                /\ f.kind = "file"
                /\ is_under(f.path, d.path)
                /\ ~should_ignore_item(generators[1].parser, f, f.path)
          /\ \E s \in entries_of(disk[cli_dir]) :
                /\ s.kind = "dir"
                /\ dirname(s.path) = dirname(d.path)
                /\ key_lt(d, s)
                /\ \E p \in paths_of(file_list_of(1)) : is_under(p, s.path)

(***************************************************************************)
(* Error handling of the generation, checked under SpecPreview.            *)
(***************************************************************************)
\* the write of generation worker t fails in this step
write_fails(t) ==
    /\ generate_thread_write(t)
    /\ events'[Len(events')].handler = "_generation_error"

\* C25: a failed write is reported to the main thread and leaves the output
\* file, the generator's list and its excluded set as they were; the error
\* handler enables Preview Files and Generate Documentation again and
\* changes none of them either; and whatever a generation renders, a retry
\* included, is the confirmed selection of the collected list.
C25_WriteFailureAllowsRetry ==
    /\ [][/\ \A t \in 1..Len(threads) :
                write_fails(t)
                   => /\ events' = Append(events, [handler |-> "_generation_error",
                                                   files_list |-> 0])
                      /\ written' = written
                      /\ generators' = generators
                      /\ lists' = lists
          /\ generation_error
                => /\ preview_button' = "normal"
                   /\ generate_button' = "normal"
                   /\ written' = written
                   /\ generators' = generators
                   /\ lists' = lists]_vars
    /\ [](\A t \in 1..Len(threads) :
             has_rendered(t)
                => threads[t].todo
                      = included_of(collect_all_files(disk[selected_directory],
                                                      generators[1].parser),
                                    gui_excluded_files))

\* C25's case: a first generation failed to write (nothing is on disk), its
\* error was handled, and a second generation has rendered the selection,
\* which excludes something.
C25_Witness ==
    /\ written = << >>
    /\ gui_excluded_files # {}
    /\ \E t, u \in 1..Len(threads) :
          /\ threads[t].kind = "generate" /\ threads[t].pc = "done"
          /\ has_rendered(u)
          /\ threads[u].todo # << >>

(***************************************************************************)
(* SpecLive: the GUI with its workers and callbacks under fair scheduling. *)
(* The operating system runs every thread that can run, and the main loop  *)
(* runs every callback queued with root.after, also while a preview window *)
(* holds the grab.  The user browses to the project, previews, confirms or *)
(* cancels and generates; the selection handlers touch the window alone    *)
(* and are left out.                                                       *)
(***************************************************************************)
LiveInit == Init /\ gui_on = TRUE

LiveCloseNext == \E w \in 1..Len(windows) : confirm(w) \/ cancel(w)

LiveNext ==
    \/ browse_directory("proj")
    \/ preview_files
    \/ generate_documentation
    \/ show_file_preview
    \/ preview_error
    \/ generation_complete
    \/ generation_error
    \/ CollectThreadNext
    \/ GenerateThreadNext
    \/ LiveCloseNext

LiveFairness ==
    /\ WF_vars(CollectThreadNext)
    /\ WF_vars(GenerateThreadNext)
    /\ WF_vars(show_file_preview)
    /\ WF_vars(preview_error)
    /\ WF_vars(generation_complete)
    /\ WF_vars(generation_error)

SpecLive == LiveInit /\ [][LiveNext]_vars /\ LiveFairness

(***************************************************************************)
(* Properties of the background tasks, checked under SpecLive.             *)
(***************************************************************************)
\* the workers of a kind that have returned
returned(ths, kind) ==
    Cardinality({ t \in 1..Len(ths) : ths[t].kind = kind /\ ths[t].pc = "done" })

\* the callbacks a worker of a kind queues: success first, failure second
completion_handlers(kind) ==
    IF kind = "collect" THEN {"_show_file_preview", "_preview_error"}
    ELSE {"_generation_complete", "_generation_error"}

\* in this step one worker of the kind returns, having queued one callback
\* of its kind behind those already queued
delivers_one(kind) ==
    /\ returned(threads', kind) = returned(threads, kind) + 1
    /\ Len(events') = Len(events) + 1
    /\ SubSeq(events', 1, Len(events)) = events
    /\ events'[Len(events')].handler \in completion_handlers(kind)

\* in this step the main loop runs the oldest queued callback
handles_one ==
    show_file_preview \/ preview_error \/ generation_complete \/ generation_error

\* the completion callbacks run so far: every worker that has returned
\* queued one, and those not run are still queued
handled_count ==
    returned(threads, "collect") + returned(threads, "generate") - Len(events)

\* C26: every worker started delivers exactly one completion callback, of
\* success or of failure, at the moment it returns; a callback leaves the
\* queue only by being run, once, and running it stops the progress bar;
\* and when n workers have been started, n callbacks are eventually run.
C26_OneCompletionEventPerTask ==
    /\ [][/\ \A kind \in {"collect", "generate"} :
                returned(threads', kind) # returned(threads, kind)
                   => delivers_one(kind)
          /\ events' # events
                => \/ delivers_one("collect")
                   \/ delivers_one("generate")
                   \/ /\ handles_one
                      /\ events' = Tail(events)
                      /\ progress_running' = FALSE
                      /\ threads' = threads]_vars
    /\ \A n \in 1..(MaxPreviews + MaxGenerations) :
          (Len(threads) >= n) ~> (handled_count >= n)

\* C26's case: a scan and a generation have both been started and have
\* both returned, and the callbacks of both have been run.
C26_Witness ==
    /\ returned(threads, "collect") >= 1
    /\ returned(threads, "generate") >= 1
    /\ Len(threads) = returned(threads, "collect") + returned(threads, "generate")
    /\ events = << >>
    /\ progress_running = FALSE

(***************************************************************************)
(* Properties of the parse, checked under SpecRules.                       *)
(***************************************************************************)
\* a line of the source as the file holds it, without its line terminator
without_newline(raw) ==
    IF endswith(raw, "\n") THEN SubSeq(raw, 1, Len(raw) - 1) ELSE raw

\* what the claim says one parse step does with a line: nothing for a
\* blank line or a comment, one negation rule for a line starting with "!",
\* one match rule for any other line
partitions(line) ==
    IF Len(strip(line)) = 0 \/ startswith(line, "#")
    THEN patterns' = patterns /\ negation_patterns' = negation_patterns
    ELSE IF startswith(line, "!")
    THEN patterns' = patterns /\ negation_patterns' = Append(negation_patterns, Tail(line))
    ELSE patterns' = Append(patterns, line) /\ negation_patterns' = negation_patterns

\* C27 as stated: the lines of the source, as the file holds them, are
\* partitioned into lines without a rule, negation rules and match rules.
C27_AsStated ==
    [][\A raw \in LinePool : ParseLine(raw) => partitions(without_newline(raw))]_vars

\* C27 amended: each line is first stripped of the whitespace around it;
\* the stripped lines are partitioned: an empty one or one starting with
\* "#" gives no rule, one starting with "!" gives exactly one negation rule
\* holding the rest of it, any other gives exactly one match rule holding
\* it; no line gives a rule in both lists.
C27_StrippedLinesPartitioned ==
    [][\A raw \in LinePool :
          ParseLine(raw)
             => /\ partitions(strip(raw))
                /\ Len(patterns') + Len(negation_patterns')
                      <= Len(patterns) + Len(negation_patterns) + 1]_vars

\* C27's case: a source of a negation line and a line with blanks around
\* its pattern has been parsed: one rule each, the pattern without blanks.
C27_Witness ==
    /\ lines_read = 2
    /\ patterns = <<"tmp">>
    /\ negation_patterns = <<"important.log">>

(***************************************************************************)
(* Properties of the workflow, checked under Spec.                         *)
(***************************************************************************)
\* the generation workers that have not returned
generating == { t \in 1..Len(threads) :
                  threads[t].kind = "generate" /\ threads[t].pc # "done" }

\* a generation has been started and neither _generation_complete nor
\* _generation_error has run for it yet
generation_in_progress ==
    \/ generating # {}
    \/ \E i \in 1..Len(events) :
          events[i].handler \in completion_handlers("generate")

\* C28: from the start of a generation worker until its completion callback
\* has run, Preview Files and Generate Documentation stay disabled, whatever
\* the user does (Browse included), so no scan and no second generation
\* starts meanwhile and at most one generation worker exists.
C28_ButtonsDisabledWhileGenerating ==
    generation_in_progress
        => /\ preview_button = "disabled"
           /\ generate_button = "disabled"
           /\ Cardinality(generating) <= 1

\* C29: after Browse has selected a directory, Generate Documentation stays
\* disabled until a preview of that directory has been scanned and
\* confirmed, and nothing else enables it; so whenever the button is
\* enabled, self.generator was built for the directory selected and no
\* scan of it is still running.
C29_GenerateDisabledUntilPreviewConfirmed ==
    generate_button = "normal"
        => /\ gui_generator # 0
           /\ generators[gui_generator].root = selected_directory
           /\ collectors_of(gui_generator) = {}

\* the scan workers started that have not taken a generator yet: they will
\* take self.generator as it is when they run
scans_pending ==
    { t \in 1..Len(threads) : threads[t].kind = "collect" /\ threads[t].pc = "start" }

\* C30: the order scan, preview and confirm, generate is enforced: when a
\* generation starts, the generator it will render has completed its
\* collection pass (no scan of it is pending or running and its list holds
\* all that the walk yields), the preview of that pass is closed, and the
\* generator's excluded set is the selection confirmed last.
C30_GenerateOnlyAfterScanAndConfirm ==
    [][generate_documentation
          => /\ scans_pending = {}
             /\ collectors_of(gui_generator) = {}
             /\ current_file_list = generators[gui_generator].walk
             /\ \A i \in 1..Len(events) : events[i].handler # "_show_file_preview"
             /\ \A w \in 1..Len(windows) : ~windows[w].open
             /\ generators[gui_generator].excluded_files = gui_excluded_files]_vars

=============================================================================
